---- MODULE Spec2Model ----
(***************************************************************************)
(* A model of ghs / ghss: the command line tool that synchronises a local  *)
(* .env file with the secrets and variables of a GitHub repository by      *)
(* shelling out to the gh client.                                          *)
(*                                                                         *)
(* Text is modelled at character level: a string is a sequence of          *)
(* one-character strings, a file is the sequence of its characters.        *)
(* The characters that occur are upper and lower case letters, a digit,    *)
(* the underscore, '=', '#', the blank, the single quote and the line feed.*)
(* Backslash, '$', the double quote, tab and carriage return do not occur, *)
(* so escape decoding and ${...} interpolation of python-dotenv are not    *)
(* part of the model.                                                      *)
(***************************************************************************)
EXTENDS Integers, Sequences, FiniteSets, TLC

VARIABLES
    pkg,            \* "ghss" (src/ghss) or "ghs" (src/ghs): the package that runs
    cmd,            \* the command or library function being run
    pc,             \* the position inside it
    trace,          \* every external step so far, in order: gh calls, file accesses
    secrets,        \* remote store of secrets: name -> value
    variables,      \* remote store of repository variables: name -> value
    secrets0,       \* history: the remote secrets when the command started
    file,           \* the local .env file: its characters, or NoFile
    file0,          \* history: the local file when the command started
    secrets_to_set, \* set(): the loaded mapping, a sequence of [key, value]
    idx,            \* set(): index of the next entry of secrets_to_set to push
    secret_name,    \* testconf(): the generated name
    entries,        \* argument of write_env_file / listing handed to it
    ret,            \* run_gh_command called directly: [proc, check, result]
    confirmAnswer,  \* what the user would answer to a confirmation prompt
    exitCode,       \* NoExit while running, then 0 or 1
    out             \* the messages echoed so far (stdout and stderr)

vars == <<pkg, cmd, pc, trace, secrets, variables, secrets0, file, file0,
          secrets_to_set, idx, secret_name, entries, ret, confirmAnswer,
          exitCode, out>>

-----------------------------------------------------------------------------
(* Bounds of the model *)

\* lines of a local file in the command runs
MaxLines == 3
\* lines of a local file in the runs of the file codec alone
MaxCodecLines == 3
\* entries handed to write_env_file in the runs of the file codec alone
MaxEntries == 2
MaxWrites == 2

-----------------------------------------------------------------------------
(* Characters and strings *)

NLc == "\n"
\* [^\S\r\n]: white space that does not end a line
WS == {" "}
NL == {NLc}
\* Python's None, told apart from every string (whose elements are single characters)
None == <<"None">>
NoFile == <<"NoFile">>
NoExit == -1

Min(S) == CHOOSE x \in S : \A y \in S : x <= y
Max(S) == CHOOSE x \in S : \A y \in S : x >= y

Peek(s, p) == IF p <= Len(s) THEN s[p] ELSE ""

\* the first position from p on whose character is not in S (Len(s)+1 if none)
SkipSet(s, p, S) ==
    LET stops == {q \in p..Len(s) : s[q] \notin S}
    IN IF stops = {} THEN Max({Len(s) + 1, p}) ELSE Min(stops)

\* the first position from p on whose character is in S (Len(s)+1 if none)
SkipNotSet(s, p, S) ==
    LET stops == {q \in p..Len(s) : s[q] \in S}
    IN IF stops = {} THEN Max({Len(s) + 1, p}) ELSE Min(stops)

RECURSIVE Flatten(_)
Flatten(ss) == IF ss = <<>> THEN <<>> ELSE Head(ss) \o Flatten(Tail(ss))

\* str.rstrip() and str.strip()
RStrip(s) ==
    LET keep == {q \in 1..Len(s) : s[q] \notin WS \cup NL}
    IN IF keep = {} THEN <<>> ELSE SubSeq(s, 1, Max(keep))

Strip(s) ==
    LET keep == {q \in 1..Len(s) : s[q] \notin WS \cup NL}
    IN IF keep = {} THEN <<>> ELSE SubSeq(s, Min(keep), Max(keep))

UpperChar(c) ==
    CASE c = "a" -> "A"
      [] c = "b" -> "B"
      [] c = "t" -> "T"
      [] c = "x" -> "X"
      [] c = "y" -> "Y"
      [] OTHER -> c

\* str.upper()
Upper(s) == [i \in DOMAIN s |-> UpperChar(s[i])]

-----------------------------------------------------------------------------
(* python-dotenv's parser, which load_env_file calls: dotenv_values(path)  *)
(* reads the whole stream binding by binding (dotenv/parser.py).           *)
(* A position is an index into the character sequence; a parse step gives  *)
(* [ok, val, next]: whether the regular expression matched, what it        *)
(* captured and the position after it.                                     *)

\* _export: (?:export[^\S\r\n]+)?
ReadExport(s, p) ==
    IF /\ p + 6 <= Len(s)
       /\ SubSeq(s, p, p + 5) = <<"e", "x", "p", "o", "r", "t">>
       /\ s[p + 6] \in WS
    THEN SkipSet(s, p + 6, WS)
    ELSE p

\* parse_key: None at a comment, '([^']+)' at a quote, ([^=\#\s]+) otherwise
ParseKey(s, p) ==
    IF Peek(s, p) = "#" THEN [ok |-> TRUE, val |-> None, next |-> p]
    ELSE IF Peek(s, p) = "'"
    THEN LET q == SkipNotSet(s, p + 1, {"'"})
         IN IF q <= Len(s) /\ q > p + 1
            THEN [ok |-> TRUE, val |-> SubSeq(s, p + 1, q - 1), next |-> q + 1]
            ELSE [ok |-> FALSE, val |-> None, next |-> p]
    ELSE LET q == SkipNotSet(s, p, {"=", "#"} \cup WS \cup NL)
         IN IF q > p
            THEN [ok |-> TRUE, val |-> SubSeq(s, p, q - 1), next |-> q]
            ELSE [ok |-> FALSE, val |-> None, next |-> p]

\* parse_unquoted_value: re.sub(r"\s+#.*", "", part).rstrip()
StripComment(part) ==
    LET starts == {i \in 1..Len(part) :
                      /\ part[i] \in WS
                      /\ Peek(part, SkipSet(part, i, WS)) = "#"}
    IN RStrip(IF starts = {} THEN part ELSE SubSeq(part, 1, Min(starts) - 1))

\* parse_value: quoted '((?:\\'|[^'])*)', empty at the end of the line,
\* ([^\r\n]*) without its trailing comment otherwise
ParseValue(s, p) ==
    IF Peek(s, p) = "'"
    THEN LET q == SkipNotSet(s, p + 1, {"'"})
         IN IF q <= Len(s)
            THEN [ok |-> TRUE, val |-> SubSeq(s, p + 1, q - 1), next |-> q + 1]
            ELSE [ok |-> FALSE, val |-> None, next |-> p]
    ELSE IF Peek(s, p) \in {"", NLc}
    THEN [ok |-> TRUE, val |-> <<>>, next |-> p]
    ELSE LET q == SkipNotSet(s, p, NL)
         IN [ok |-> TRUE, val |-> StripComment(SubSeq(s, p, q - 1)), next |-> q]

\* _comment: (?:[^\S\r\n]*#[^\r\n]*)?
ReadComment(s, p) ==
    IF Peek(s, SkipSet(s, p, WS)) = "#" THEN SkipNotSet(s, p, NL) ELSE p

\* _end_of_line: [^\S\r\n]*(?:\r\n|\n|\r|$)
ReadEndOfLine(s, p) ==
    LET q == SkipSet(s, p, WS)
    IN IF Peek(s, q) = NLc THEN [ok |-> TRUE, val |-> None, next |-> q + 1]
       ELSE IF q > Len(s) THEN [ok |-> TRUE, val |-> None, next |-> q]
       ELSE [ok |-> FALSE, val |-> None, next |-> p]

\* _rest_of_line, read after an Error: [^\r\n]*(?:\r|\n|\r\n)?
ReadRestOfLine(s, p) ==
    LET q == SkipNotSet(s, p, NL)
    IN IF q <= Len(s) THEN q + 1 ELSE q

\* parse_binding: one Binding [key, value, error] and the position after it
ParseBinding(s, p) ==
    LET p1 == SkipSet(s, p, WS \cup NL)
        Failed(at) == [key |-> None, value |-> None, error |-> TRUE,
                       next |-> ReadRestOfLine(s, at)]
    IN IF p1 > Len(s)
       THEN [key |-> None, value |-> None, error |-> FALSE, next |-> p1]
       ELSE
       LET k == ParseKey(s, ReadExport(s, p1))
       IN IF ~k.ok THEN Failed(k.next)
          ELSE
          LET p3 == SkipSet(s, k.next, WS)
              hasEq == Peek(s, p3) = "="
              v == IF hasEq THEN ParseValue(s, SkipSet(s, p3 + 1, WS))
                   ELSE [ok |-> TRUE, val |-> None, next |-> p3]
          IN IF ~v.ok THEN Failed(v.next)
             ELSE
             LET e == ReadEndOfLine(s, ReadComment(s, v.next))
             IN IF ~e.ok THEN Failed(e.next)
                ELSE [key |-> k.val, value |-> v.val, error |-> FALSE,
                      next |-> e.next]

\* parse_stream: the bindings of the whole stream, in order
RECURSIVE ParseStream(_, _)
ParseStream(s, p) ==
    IF p > Len(s) THEN <<>>
    ELSE LET b == ParseBinding(s, p)
         IN <<b>> \o ParseStream(s, b.next)

\* mutant: a key that is bound again is entered a second time
DictPut_Append(d, k, v) == Append(d, [key |-> k, value |-> v])

\* dict[key] = value on an insertion-ordered dict, kept as a sequence of
\* [key, value] with distinct keys: a known key keeps its place
DictPut(d, k, v) ==
    IF \E i \in DOMAIN d : d[i].key = k
    THEN [i \in DOMAIN d |-> IF d[i].key = k THEN [key |-> k, value |-> v] ELSE d[i]]
    ELSE Append(d, [key |-> k, value |-> v])

RECURSIVE DictOf(_, _)
DictOf(bs, d) ==
    IF bs = <<>> THEN d
    ELSE DictOf(Tail(bs),
                IF Head(bs).key = None THEN d
                ELSE DictPut(d, Head(bs).key, Head(bs).value))

\* dotenv_values(path): the bindings that have a key, as an ordered dict
dotenv_values(s) == DictOf(ParseStream(s, 1), <<>>)

-----------------------------------------------------------------------------
(* The file codec *)

Truthy(v) == v # None /\ v # <<>>

\* mutant: an empty collection is taken for a filled one
Falsy_Never(c) == FALSE

\* `not secrets`, `not secrets_to_set`: the list or dict is empty
Falsy(c) == c = <<>>

\* mutant: the existence test is left out
env_path_exists_Always(f) == TRUE

\* Path(file).exists()
env_path_exists(f) == f # NoFile

\* mutant: the filter tests the key alone
KeepEntry_KeyOnly(e) == Truthy(e.key)

KeepEntry(e) == Truthy(e.key) /\ Truthy(e.value)

\* ghss/env_utils.py and ghs/env_utils.py, load_env_file, for a file that
\* exists: {k: v for k, v in dotenv_values(path).items() if k and v}
load_env_file(s) == SelectSeq(dotenv_values(s), KeepEntry)

\* dict.get(field, default) on an entry of a listing
Get(var, field, default) == IF field \in DOMAIN var THEN var[field] ELSE default

\* mutant: the line feed is left out
FormatLine_NoLineFeed(var) ==
    Get(var, "name", <<>>) \o <<"=">> \o Get(var, "value", <<>>)

\* ghss/env_utils.py: f"{name}={value}\n"
FormatLine(var) ==
    Get(var, "name", <<>>) \o <<"=">> \o Get(var, "value", <<>>) \o <<NLc>>

\* ghs/env_utils.py and ghs get(): f"{secret['name']}=\n"
FormatNameLine(secret) == secret["name"] \o <<"=", NLc>>

\* mutant: the file is opened for appending, what it held is kept
open_w_Append(old) == IF old = NoFile THEN <<>> ELSE old

\* Path(file).open("w") and open(file, "w"): the file is created, or
\* truncated when it exists; what the writes that follow are appended to
open_w(old) == <<>>

\* mutant: the values are left out, as in the writer of ghs
write_env_file_NamesOnly(vs) ==
    Flatten([i \in DOMAIN vs |-> Get(vs[i], "name", <<>>) \o <<"=", NLc>>])

\* ghss/env_utils.py, write_env_file: the content of the file it leaves
write_env_file(vs) == Flatten([i \in DOMAIN vs |-> FormatLine(vs[i])])

\* ghs/env_utils.py, write_env_file, and the loop of ghs get()
write_env_file_ghs(vs) == Flatten([i \in DOMAIN vs |-> FormatNameLine(vs[i])])

\* iterating over an open text file: its lines, without their line feeds
RECURSIVE SplitLines(_)
SplitLines(s) ==
    IF s = <<>> THEN <<>>
    ELSE LET q == SkipNotSet(s, 1, NL)
         IN <<SubSeq(s, 1, q - 1)>> \o SplitLines(SubSeq(s, q + 1, Len(s)))

\* ghs set(), the body of its loop over the lines of the file
ParseLineInline(d, raw) ==
    LET line == Strip(raw)
        eq == SkipNotSet(line, 1, {"="})
        key == Strip(SubSeq(line, 1, eq - 1))
        value == Strip(SubSeq(line, eq + 1, Len(line)))
    IN IF line = <<>> \/ Peek(line, 1) = "#" THEN d
       ELSE IF eq > Len(line) THEN d
       ELSE IF key = <<>> THEN d
       ELSE DictPut(d, key, value)

RECURSIVE ParseLinesInline(_, _)
ParseLinesInline(ls, d) ==
    IF ls = <<>> THEN d
    ELSE ParseLinesInline(Tail(ls), ParseLineInline(d, Head(ls)))

\* ghs set(): the mapping it builds from a file that exists
parse_inline(s) == ParseLinesInline(SplitLines(s), <<>>)

-----------------------------------------------------------------------------
(* The environment: local files, the remote stores, the gh subprocess *)

\* the lines a local file of a command run is made of
CmdLineSet ==
    { <<"A", "=", "x">>,        \* KEY=value
      <<"B", "=", "y">>,
      <<"C", "=", "x">>,
      <<"A", "=", "y">>,        \* the same key again, another value
      <<"A", "=">>,             \* empty value
      <<"=", "x">>,             \* empty key
      <<"A">>,                  \* no '='
      <<"#", "c">> }            \* comment

\* the lines a local file of a codec run is made of
CodecLineSet ==
    CmdLineSet \cup
    { <<>>,                                     \* blank line
      <<" ", "A", " ", "=", " ", "x", " ">>,    \* blanks around key and value
      <<"B", "=", "x", " ", "#", "c">>,         \* trailing comment
      <<"B", "=", "'", "x">> }                  \* a quote that is never closed

JoinLines(ls) == Flatten([i \in DOMAIN ls |-> ls[i] \o <<NLc>>])

SeqsUpTo(S, n) == UNION {[1..k -> S] : k \in 0..n}

FilesOf(lineSet, n) == {JoinLines(ls) : ls \in SeqsUpTo(lineSet, n)}

CmdFiles == FilesOf(CmdLineSet, MaxLines)
CodecFiles == FilesOf(CodecLineSet, MaxCodecLines)

\* names and values handed to write_env_file in a codec run
CodecStrings ==
    { <<>>, <<"A">>, <<"B">>, <<"x">>, <<"x", "_", "1">>, <<" ", "x">>, <<"#">>,
      <<"'", "x">>, <<"x", NLc, "y">> }

CodecEntries ==
    [name : {<<>>, <<"A">>, <<"B">>, <<"A", "=">>}, value : CodecStrings]
        \cup [name : {<<"A">>, <<"B">>}]

EmptyMap == <<>>
MapPut(m, k, v) == (k :> v) @@ m
MapDel(m, k) == [n \in DOMAIN m \ {k} |-> m[n]]

\* the secrets and the variables of the repository when a command starts
InitRemotes ==
    { [secrets |-> EmptyMap, variables |-> EmptyMap],
      [secrets |-> <<"B">> :> <<"o">>, variables |-> <<"A">> :> <<"o">>],
      \* a secret left behind under a name testconf may generate again
      [secrets |-> <<"T", "X">> :> <<"o">>, variables |-> EmptyMap] }

\* what a gh subprocess may end with: returncode, stdout, stderr
ProcResults ==
    { [returncode |-> 0, stdout |-> "ok", stderr |-> ""],
      [returncode |-> 1, stdout |-> "", stderr |-> "HTTP 404"],
      [returncode |-> 1, stdout |-> "part", stderr |-> "HTTP 403"] }

NoResult == [returncode |-> NoExit, stdout |-> "", stderr |-> ""]

\* the names testconf may generate: a fixed lower case prefix, a random tail
TestNames == {<<"t", "x">>, <<"t", "1">>}

Commands == {"testconf", "get", "set", "get_secret", "get_variable", "list_vars"}
\* the commands of each package, and the functions of ghss.gh_utils and
\* ghss.env_utils a caller may use directly
Entry ==
    [ghss |-> Commands \cup {"run_gh_command", "set_variable", "delete_variable",
                             "load_env_file"},
     ghs |-> {"testconf", "get", "set"}]

\* the names and the value a caller passes to get_secret, get_variable,
\* set_variable and delete_variable
ArgNames == {<<"A">>, <<"B">>}
ArgValue == <<"x">>

GhCall(op, name, value, proc) ==
    [kind |-> "gh", op |-> op, name |-> name, value |-> value,
     rc |-> proc.returncode, stderr |-> proc.stderr]

FileAccess(op) ==
    [kind |-> "file", op |-> op, name |-> None, value |-> None,
     rc |-> 0, stderr |-> ""]

\* time.sleep(3)
Sleep ==
    [kind |-> "wait", op |-> "sleep", name |-> None, value |-> None,
     rc |-> 0, stderr |-> ""]

Orderings(S) == {f \in [1..Cardinality(S) -> S] : \A n \in S : \E i \in DOMAIN f : f[i] = n}

\* the parsed stdout of `gh secret list --json name` for a store
Listings(store) == {[i \in DOMAIN f |-> [name |-> f[i]]] : f \in Orderings(DOMAIN store)}

-----------------------------------------------------------------------------
(* gh_utils.py *)

\* mutant: the check flag is ignored, any non-zero exit status raises
run_gh_command_NoCheckFlag(proc, check) ==
    IF proc.returncode # 0
    THEN [raised |-> TRUE, exit |-> 1,
          echo |-> {<<"Error running gh command: ", proc.stderr>>},
          result |-> NoResult]
    ELSE [raised |-> FALSE, exit |-> NoExit, echo |-> {}, result |-> proc]

\* run_gh_command(args, check) on a subprocess that ended with proc: whether
\* it raises typer.Exit(1), what it echoes, what it returns
run_gh_command(proc, check) ==
    IF check /\ proc.returncode # 0
    THEN [raised |-> TRUE, exit |-> 1,
          echo |-> {<<"Error running gh command: ", proc.stderr>>},
          result |-> NoResult]
    ELSE [raised |-> FALSE, exit |-> NoExit, echo |-> {}, result |-> proc]

\* the command ends: typer.Exit(code), or the function returns (code 0)
Finish(code, msgs) ==
    /\ pc' = "done"
    /\ exitCode' = code
    /\ out' = out \cup msgs

Continue(next, msgs) ==
    /\ pc' = next
    /\ exitCode' = exitCode
    /\ out' = out \cup msgs

\* what follows the two steps every command starts with
Body(c) ==
    CASE c = "testconf" -> "create"
      [] c = "get" -> "list"
      [] c = "set" -> "load"
      [] OTHER -> "info"

Start(p, c) ==
    /\ pc = "idle"
    /\ c \in Entry[p]
    /\ pkg' = p
    /\ cmd' = c
    /\ pc' = IF c \in Commands THEN "auth"
             ELSE IF c = "set_variable" THEN "patch"
             ELSE IF c = "delete_variable" THEN "delete_var"
             ELSE IF c = "load_env_file" THEN "call"
             ELSE "run"
    /\ UNCHANGED <<trace, secrets, variables, secrets0, file, file0,
                   secrets_to_set, idx, secret_name, entries, ret,
                   confirmAnswer, exitCode, out>>

\* mutant: a failed gh auth status is reported but does not end the command
check_gh_auth_NoExit(proc) ==
    /\ pc = "auth"
    /\ trace' = Append(trace, GhCall("auth_status", None, None, proc))
    /\ Continue("repo", IF proc.returncode # 0
                        THEN {<<"Error: gh CLI is not authenticated.">>} ELSE {})
    /\ UNCHANGED <<pkg, cmd, secrets, variables, secrets0, file, file0,
                   secrets_to_set, idx, secret_name, entries, ret, confirmAnswer>>

\* check_gh_auth(): gh auth status, run without run_gh_command
check_gh_auth(proc) ==
    /\ pc = "auth"
    /\ trace' = Append(trace, GhCall("auth_status", None, None, proc))
    /\ IF proc.returncode # 0
       THEN Finish(1, {<<"Error: gh CLI is not authenticated.">>,
                       <<"Please run 'gh auth login' to authenticate.">>})
       ELSE Continue("repo", {})
    /\ UNCHANGED <<pkg, cmd, secrets, variables, secrets0, file, file0,
                   secrets_to_set, idx, secret_name, entries, ret, confirmAnswer>>

\* get_current_repo(): gh repo view, which must succeed
get_current_repo(proc) ==
    /\ pc = "repo"
    /\ trace' = Append(trace, GhCall("repo_view", None, None, proc))
    /\ LET r == run_gh_command(proc, TRUE)
       IN IF r.raised THEN Finish(r.exit, r.echo)
          ELSE Continue(Body(cmd), {})
    /\ UNCHANGED <<pkg, cmd, secrets, variables, secrets0, file, file0,
                   secrets_to_set, idx, secret_name, entries, ret, confirmAnswer>>

-----------------------------------------------------------------------------
(* commands.py (ghss) and ghs/__init__.py: set *)

\* mutant: ghss keeps the inline loop of ghs, which does not drop empty values
LoadFor_Inline(p, s) == parse_inline(s)

\* the mapping set() builds: load_env_file in ghss, the inline loop in ghs
LoadFor(p, s) == IF p = "ghss" THEN load_env_file(s) ELSE parse_inline(s)

\* set(), from the existence test of the file to the first push
set_load ==
    /\ pc = "load"
    /\ cmd = "set"
    /\ IF ~env_path_exists(file)
       THEN /\ trace' = Append(trace, FileAccess("exists"))
            /\ secrets_to_set' = secrets_to_set
            /\ idx' = idx
            /\ Finish(1, {<<"Error: File not found.">>})
       ELSE LET loaded == LoadFor(pkg, file)
            IN /\ trace' = trace \o <<FileAccess("exists"), FileAccess("read")>>
               /\ secrets_to_set' = loaded
               /\ IF Falsy(loaded)
                  THEN /\ idx' = idx
                       /\ Finish(0, {<<"No secrets found in .env file.">>})
                  ELSE /\ idx' = 1
                       /\ Continue("push", {<<"Found secret(s) to set", Len(loaded)>>})
    /\ UNCHANGED <<pkg, cmd, secrets, variables, secrets0, file, file0,
                   secret_name, entries, ret, confirmAnswer>>

\* the remote effect of a successful `gh secret set NAME --body VALUE`
SecretSet(store, name, value) == MapPut(store, Upper(name), value)

\* mutant: a failed gh secret set is skipped and the loop goes on
set_push_KeepGoing(proc) ==
    /\ pc = "push"
    /\ cmd = "set"
    /\ idx \in DOMAIN secrets_to_set
    /\ LET e == secrets_to_set[idx]
       IN /\ trace' = Append(trace, GhCall("secret_set", e.key, e.value, proc))
          /\ secrets' = IF proc.returncode = 0
                        THEN SecretSet(secrets, e.key, e.value) ELSE secrets
          /\ idx' = idx + 1
          /\ IF idx = Len(secrets_to_set)
             THEN Finish(0, {<<"Successfully set secret(s)", Len(secrets_to_set)>>})
             ELSE Continue("push", {})
    /\ UNCHANGED <<pkg, cmd, variables, secrets0, file, file0, secrets_to_set,
                   secret_name, entries, ret, confirmAnswer>>

\* mutant: a failed gh secret set is issued a second time before giving up
set_push_RetryOnce(proc) ==
    /\ pc = "push"
    /\ cmd = "set"
    /\ idx \in DOMAIN secrets_to_set
    /\ LET e == secrets_to_set[idx]
           r == run_gh_command(proc, TRUE)
           last == trace[Len(trace)]
       IN /\ trace' = Append(trace, GhCall("secret_set", e.key, e.value, proc))
          /\ IF r.raised
             THEN /\ secrets' = secrets
                  /\ idx' = idx
                  /\ IF last.op = "secret_set" /\ last.rc # 0
                     THEN Finish(r.exit, r.echo)
                     ELSE Continue("push", {})
             ELSE /\ secrets' = SecretSet(secrets, e.key, e.value)
                  /\ idx' = idx + 1
                  /\ IF idx = Len(secrets_to_set)
                     THEN Finish(0, {<<"Successfully set secret(s)", Len(secrets_to_set)>>})
                     ELSE Continue("push", {})
    /\ UNCHANGED <<pkg, cmd, variables, secrets0, file, file0, secrets_to_set,
                   secret_name, entries, ret, confirmAnswer>>

\* set(), one turn of its loop: gh secret set KEY --body VALUE
set_push(proc) ==
    /\ pc = "push"
    /\ cmd = "set"
    /\ idx \in DOMAIN secrets_to_set
    /\ LET e == secrets_to_set[idx]
           r == run_gh_command(proc, TRUE)
       IN /\ trace' = Append(trace, GhCall("secret_set", e.key, e.value, proc))
          /\ IF r.raised
             THEN /\ secrets' = secrets
                  /\ idx' = idx
                  /\ Finish(r.exit, r.echo)
             ELSE /\ secrets' = SecretSet(secrets, e.key, e.value)
                  /\ idx' = idx + 1
                  /\ IF idx = Len(secrets_to_set)
                     THEN Finish(0, {<<"Successfully set secret(s)", Len(secrets_to_set)>>})
                     ELSE Continue("push", {})
    /\ UNCHANGED <<pkg, cmd, variables, secrets0, file, file0, secrets_to_set,
                   secret_name, entries, ret, confirmAnswer>>

-----------------------------------------------------------------------------
(* get *)

\* the file get() leaves: write_env_file in ghss, the inline loop in ghs
WriteFor(p, listing) ==
    IF p = "ghss" THEN write_env_file(listing) ELSE write_env_file_ghs(listing)

\* mutant: the file is opened for writing before the listing is asked for
get_list_OpensFirst(proc) ==
    /\ pc = "list"
    /\ cmd = "get"
    /\ LET r == run_gh_command(proc, TRUE)
           calls == <<FileAccess("write"), GhCall("secret_list", None, None, proc)>>
       IN /\ trace' = trace \o calls
          /\ IF r.raised
             THEN /\ file' = open_w(file)
                  /\ entries' = entries
                  /\ Finish(r.exit, r.echo)
             ELSE \E listing \in Listings(secrets) :
                  /\ entries' = listing
                  /\ file' = open_w(file) \o WriteFor(pkg, listing)
                  /\ Finish(0, {<<"Found secret(s)", Len(listing)>>})
    /\ UNCHANGED <<pkg, cmd, secrets, variables, secrets0, file0, secrets_to_set,
                   idx, secret_name, ret, confirmAnswer>>

\* get(): gh secret list, then the file is written unless nothing is listed
get_list(proc) ==
    /\ pc = "list"
    /\ cmd = "get"
    /\ LET r == run_gh_command(proc, TRUE)
       IN IF r.raised
          THEN /\ trace' = Append(trace, GhCall("secret_list", None, None, proc))
               /\ UNCHANGED <<file, entries>>
               /\ Finish(r.exit, r.echo)
          ELSE \E listing \in Listings(secrets) :
               /\ entries' = listing
               /\ IF Falsy(listing)
                  THEN /\ trace' = Append(trace, GhCall("secret_list", None, None, proc))
                       /\ file' = file
                       /\ Finish(0, {<<"No secrets found in repository.">>})
                  ELSE /\ trace' = trace \o <<GhCall("secret_list", None, None, proc),
                                              FileAccess("write")>>
                       /\ file' = open_w(file) \o WriteFor(pkg, listing)
                       /\ Finish(0, {<<"Found secret(s)", Len(listing)>>,
                                     <<"Secret names written to file">>})
    /\ UNCHANGED <<pkg, cmd, secrets, variables, secrets0, file0, secrets_to_set,
                   idx, secret_name, ret, confirmAnswer>>

-----------------------------------------------------------------------------
(* testconf *)

\* testconf(): the name is generated, then gh secret set NAME --body VALUE
testconf_create(name, proc) ==
    /\ pc = "create"
    /\ cmd = "testconf"
    /\ secret_name' = name
    /\ trace' = Append(trace, GhCall("secret_set", name, <<"v">>, proc))
    /\ LET r == run_gh_command(proc, TRUE)
       IN IF r.raised
          THEN /\ secrets' = secrets
               /\ Finish(r.exit, r.echo)
          ELSE /\ secrets' = SecretSet(secrets, name, <<"v">>)
               /\ Continue("verify", {<<"Test secret created">>})
    /\ UNCHANGED <<pkg, cmd, variables, secrets0, file, file0, secrets_to_set,
                   idx, entries, ret, confirmAnswer>>

\* the name testconf looks up and deletes: upper-cased in ghss, as generated in ghs
LookupName(p, name) == IF p = "ghss" THEN Upper(name) ELSE name

\* mutant: the membership test always passes
InSecretNames_Always(name, listing) == TRUE

\* testconf(): secret_names = [s["name"] for s in secrets]; name in secret_names
InSecretNames(name, listing) == \E i \in DOMAIN listing : listing[i].name = name

\* mutant: a failed verification deletes the entry before the command ends
testconf_verify_CleansUp(proc, visible) ==
    /\ pc = "verify"
    /\ cmd = "testconf"
    /\ LET r == run_gh_command(proc, TRUE)
           seen == IF visible THEN secrets ELSE MapDel(secrets, Upper(secret_name))
           listCall == (IF pkg = "ghss" THEN <<Sleep>> ELSE <<>>)
                       \o <<GhCall("secret_list", None, None, proc)>>
           cleanUp == <<GhCall("secret_delete", Upper(secret_name), None,
                               [returncode |-> 0, stdout |-> "ok", stderr |-> ""])>>
       IN IF r.raised
          THEN /\ entries' = entries
               /\ secrets' = MapDel(secrets, Upper(secret_name))
               /\ trace' = trace \o listCall \o cleanUp
               /\ Finish(r.exit, r.echo)
          ELSE \E listing \in Listings(seen) :
               /\ entries' = listing
               /\ IF InSecretNames(LookupName(pkg, secret_name), listing)
                  THEN /\ secrets' = secrets
                       /\ trace' = trace \o listCall
                       /\ Continue("delete", {<<"Test secret verified">>})
                  ELSE /\ secrets' = MapDel(secrets, Upper(secret_name))
                       /\ trace' = trace \o listCall \o cleanUp
                       /\ Finish(1, {<<"Test secret not found in repository">>})
    /\ UNCHANGED <<pkg, cmd, variables, secrets0, file, file0,
                   secrets_to_set, idx, secret_name, ret, confirmAnswer>>

\* testconf(): the wait (ghss only), gh secret list, the membership test.
\* The listing is that of the store, or, the write not yet visible, that of
\* the store without the entry just created.
testconf_verify(proc, visible) ==
    /\ pc = "verify"
    /\ cmd = "testconf"
    /\ trace' = trace
                \o (IF pkg = "ghss" THEN <<Sleep>> ELSE <<>>)
                \o <<GhCall("secret_list", None, None, proc)>>
    /\ LET r == run_gh_command(proc, TRUE)
           seen == IF visible THEN secrets ELSE MapDel(secrets, Upper(secret_name))
       IN IF r.raised
          THEN /\ entries' = entries
               /\ Finish(r.exit, r.echo)
          ELSE \E listing \in Listings(seen) :
               /\ entries' = listing
               /\ IF InSecretNames(LookupName(pkg, secret_name), listing)
                  THEN Continue("delete", {<<"Test secret verified">>})
                  ELSE Finish(1, {<<"Test secret not found in repository">>})
    /\ UNCHANGED <<pkg, cmd, secrets, variables, secrets0, file, file0,
                   secrets_to_set, idx, secret_name, ret, confirmAnswer>>

\* mutant: the command ends with its success message, the delete left out
testconf_delete_LeftOut(proc) ==
    /\ pc = "delete"
    /\ cmd = "testconf"
    /\ Finish(0, {<<"All tests passed! Configuration is working correctly.">>})
    /\ UNCHANGED <<pkg, cmd, trace, secrets, variables, secrets0, file, file0,
                   secrets_to_set, idx, secret_name, entries, ret, confirmAnswer>>

\* testconf(): gh secret delete NAME, which can succeed only on a secret
\* that exists under that name, names compared without case
testconf_delete(proc) ==
    /\ pc = "delete"
    /\ cmd = "testconf"
    /\ LET target == LookupName(pkg, secret_name)
           r == run_gh_command(proc, TRUE)
       IN /\ proc.returncode = 0 => Upper(target) \in DOMAIN secrets
          /\ trace' = Append(trace, GhCall("secret_delete", target, None, proc))
          /\ IF r.raised
             THEN /\ secrets' = secrets
                  /\ Finish(r.exit, r.echo)
             ELSE /\ secrets' = MapDel(secrets, Upper(target))
                  /\ Finish(0, {<<"Test secret deleted">>,
                                <<"All tests passed! Configuration is working correctly.">>})
    /\ UNCHANGED <<pkg, cmd, variables, secrets0, file, file0, secrets_to_set,
                   idx, secret_name, entries, ret, confirmAnswer>>

-----------------------------------------------------------------------------
(* get_secret, get_variable, list_vars (ghss only) *)

\* get_secret(): get_secret_info, a GET that succeeds only on a secret that exists
get_secret(name, proc) ==
    /\ pc = "info"
    /\ cmd = "get_secret"
    /\ proc.returncode = 0 => Upper(name) \in DOMAIN secrets
    /\ trace' = Append(trace, GhCall("api_get_secret", name, None, proc))
    /\ LET r == run_gh_command(proc, TRUE)
       IN IF r.raised
          THEN Finish(r.exit, r.echo \cup {<<"Secret not found or error occurred">>})
          ELSE Finish(0, {<<"Secret found!">>})
    /\ UNCHANGED <<pkg, cmd, secrets, variables, secrets0, file, file0,
                   secrets_to_set, idx, secret_name, entries, ret, confirmAnswer>>

\* mutant: a variable that is not found is created on the spot
get_variable_CreatesMissing(name, proc) ==
    /\ pc = "info"
    /\ cmd = "get_variable"
    /\ proc.returncode = 0 => Upper(name) \in DOMAIN variables
    /\ LET r == run_gh_command(proc, TRUE)
           ok == [returncode |-> 0, stdout |-> "ok", stderr |-> ""]
       IN IF r.raised
          THEN /\ trace' = trace \o <<GhCall("api_get_variable", name, None, proc),
                                      GhCall("POST", name, <<>>, ok)>>
               /\ variables' = MapPut(variables, Upper(name), <<>>)
               /\ Finish(0, {<<"Variable created">>})
          ELSE /\ trace' = Append(trace, GhCall("api_get_variable", name, None, proc))
               /\ variables' = variables
               /\ Finish(0, {<<"Variable found!">>})
    /\ UNCHANGED <<pkg, cmd, secrets, secrets0, file, file0,
                   secrets_to_set, idx, secret_name, entries, ret, confirmAnswer>>

\* get_variable(): get_variable_info, a GET that succeeds only on a variable that exists
get_variable(name, proc) ==
    /\ pc = "info"
    /\ cmd = "get_variable"
    /\ proc.returncode = 0 => Upper(name) \in DOMAIN variables
    /\ trace' = Append(trace, GhCall("api_get_variable", name, None, proc))
    /\ LET r == run_gh_command(proc, TRUE)
       IN IF r.raised
          THEN Finish(r.exit, r.echo \cup {<<"Variable not found or error occurred">>})
          ELSE Finish(0, {<<"Variable found!">>, <<"Value: ">> \o variables[Upper(name)]})
    /\ UNCHANGED <<pkg, cmd, secrets, variables, secrets0, file, file0,
                   secrets_to_set, idx, secret_name, entries, ret, confirmAnswer>>

\* list_vars(): list_variables, a GET of all the variables
list_vars(proc) ==
    /\ pc = "info"
    /\ cmd = "list_vars"
    /\ trace' = Append(trace, GhCall("api_list_variables", None, None, proc))
    /\ LET r == run_gh_command(proc, TRUE)
       IN IF r.raised
          THEN Finish(r.exit, r.echo \cup {<<"Error retrieving variables">>})
          ELSE IF DOMAIN variables = {}
          THEN Finish(0, {<<"No variables found in repository.">>})
          ELSE Finish(0, {<<"Found variable(s)", Cardinality(DOMAIN variables)>>})
    /\ UNCHANGED <<pkg, cmd, secrets, variables, secrets0, file, file0,
                   secrets_to_set, idx, secret_name, entries, ret, confirmAnswer>>

-----------------------------------------------------------------------------
(* gh_utils.py called directly: run_gh_command, set_variable, delete_variable *)

\* run_gh_command(args, check) on any subprocess outcome
run_gh_command_call(proc, check) ==
    /\ pc = "run"
    /\ cmd = "run_gh_command"
    /\ trace' = Append(trace, GhCall("gh", None, None, proc))
    /\ LET r == run_gh_command(proc, check)
       IN /\ ret' = [called |-> TRUE, proc |-> proc, check |-> check,
                     raised |-> r.raised, result |-> r.result]
          /\ Finish(IF r.raised THEN r.exit ELSE 0, r.echo)
    /\ UNCHANGED <<pkg, cmd, secrets, variables, secrets0, file, file0,
                   secrets_to_set, idx, secret_name, entries, confirmAnswer>>

\* mutant: the create is issued whatever the update returned
UpdateFailed_Always(result) == TRUE

\* mutant: only an update that failed with "not found" leads to the create
UpdateFailed_NotFoundOnly(result) ==
    result.returncode # 0 /\ result.stderr = "HTTP 404"

\* set_variable(): if result.returncode != 0
UpdateFailed(result) == result.returncode # 0

\* set_variable(): the PATCH of the named variable, run with check=False; it
\* can succeed only on a variable that exists
set_variable_patch(name, proc) ==
    /\ pc = "patch"
    /\ cmd = "set_variable"
    /\ proc.returncode = 0 => Upper(name) \in DOMAIN variables
    /\ secret_name' = name
    /\ trace' = Append(trace, GhCall("PATCH", name, ArgValue, proc))
    /\ LET result == run_gh_command(proc, FALSE).result
       IN IF UpdateFailed(result)
          THEN /\ variables' = variables
               /\ Continue("post", {})
          ELSE /\ variables' = MapPut(variables, Upper(name), ArgValue)
               /\ Finish(0, {})
    /\ UNCHANGED <<pkg, cmd, secrets, secrets0, file, file0, secrets_to_set,
                   idx, entries, ret, confirmAnswer>>

\* set_variable(): the POST that follows a failed PATCH, which must succeed;
\* it can succeed only when no variable of that name exists
set_variable_post(proc) ==
    /\ pc = "post"
    /\ cmd = "set_variable"
    /\ proc.returncode = 0 => Upper(secret_name) \notin DOMAIN variables
    /\ trace' = Append(trace, GhCall("POST", secret_name, ArgValue, proc))
    /\ LET r == run_gh_command(proc, TRUE)
       IN IF r.raised
          THEN /\ variables' = variables
               /\ Finish(r.exit, r.echo)
          ELSE /\ variables' = MapPut(variables, Upper(secret_name), ArgValue)
               /\ Finish(0, {})
    /\ UNCHANGED <<pkg, cmd, secrets, secrets0, file, file0, secrets_to_set,
                   idx, secret_name, entries, ret, confirmAnswer>>

\* delete_variable(): the DELETE of the named variable, which must succeed
delete_variable(name, proc) ==
    /\ pc = "delete_var"
    /\ cmd = "delete_variable"
    /\ proc.returncode = 0 => Upper(name) \in DOMAIN variables
    /\ trace' = Append(trace, GhCall("DELETE", name, None, proc))
    /\ LET r == run_gh_command(proc, TRUE)
       IN IF r.raised
          THEN /\ variables' = variables
               /\ Finish(r.exit, r.echo)
          ELSE /\ variables' = MapDel(variables, Upper(name))
               /\ Finish(0, {})
    /\ UNCHANGED <<pkg, cmd, secrets, secrets0, file, file0, secrets_to_set,
                   idx, secret_name, entries, ret, confirmAnswer>>

-----------------------------------------------------------------------------
(* env_utils.py called directly *)

\* load_env_file(file): typer.Exit(1) on a missing file, else the mapping
load_env_file_call ==
    /\ pc \in {"idle", "call"}
    /\ cmd = "load_env_file"
    /\ IF ~env_path_exists(file)
       THEN /\ trace' = Append(trace, FileAccess("exists"))
            /\ secrets_to_set' = secrets_to_set
            /\ Finish(1, {<<"Error: File not found.">>})
       ELSE /\ trace' = trace \o <<FileAccess("exists"), FileAccess("read")>>
            /\ secrets_to_set' = load_env_file(file)
            /\ Finish(0, {})
    /\ UNCHANGED <<pkg, cmd, secrets, variables, secrets0, file, file0, idx,
                   secret_name, entries, ret, confirmAnswer>>

-----------------------------------------------------------------------------
(* The command runs *)

NoRet == [called |-> FALSE, proc |-> NoResult, check |-> FALSE,
          raised |-> FALSE, result |-> NoResult]

Init ==
    /\ pkg = "ghss"
    /\ cmd = "none"
    /\ pc = "idle"
    /\ trace = <<>>
    /\ \E r \in InitRemotes : secrets = r.secrets /\ variables = r.variables
    /\ secrets0 = secrets
    /\ file \in CmdFiles \cup {NoFile}
    /\ file0 = file
    /\ secrets_to_set = <<>>
    /\ idx = 0
    /\ secret_name = None
    /\ entries = <<>>
    /\ ret = NoRet
    /\ confirmAnswer \in BOOLEAN
    /\ exitCode = NoExit
    /\ out = {}

Next ==
    \/ \E p \in {"ghss", "ghs"}, c \in Commands \cup Entry["ghss"] : Start(p, c)
    \/ \E proc \in ProcResults : check_gh_auth(proc)
    \/ \E proc \in ProcResults : get_current_repo(proc)
    \/ set_load
    \/ \E proc \in ProcResults : set_push(proc)
    \/ \E proc \in ProcResults : get_list(proc)
    \/ \E name \in TestNames, proc \in ProcResults : testconf_create(name, proc)
    \/ \E proc \in ProcResults, visible \in BOOLEAN : testconf_verify(proc, visible)
    \/ \E proc \in ProcResults : testconf_delete(proc)
    \/ \E name \in ArgNames, proc \in ProcResults : get_secret(name, proc)
    \/ \E name \in ArgNames, proc \in ProcResults : get_variable(name, proc)
    \/ \E proc \in ProcResults : list_vars(proc)
    \/ \E proc \in ProcResults, check \in BOOLEAN : run_gh_command_call(proc, check)
    \/ \E name \in ArgNames, proc \in ProcResults : set_variable_patch(name, proc)
    \/ \E proc \in ProcResults : set_variable_post(proc)
    \/ \E name \in ArgNames, proc \in ProcResults : delete_variable(name, proc)
    \/ load_env_file_call

Spec == Init /\ [][Next]_vars

-----------------------------------------------------------------------------
(* The file codec alone: load_env_file and write_env_file called directly, *)
(* as the unit tests do, and a file written and then loaded again          *)

\* the listings ghs's write_env_file is written for: dictionaries with 'name' keys
NamesOnly(vs) == \A i \in DOMAIN vs : DOMAIN vs[i] = {"name"}

\* write_env_file(file, entries) of package p, called on a file that may
\* exist, and called once more with the same entries on the file it has left
write_env_file_call(p) ==
    /\ pc \in {"idle", "written"}
    /\ cmd = "write_env_file"
    /\ Len(trace) < MaxWrites
    /\ p = "ghs" => NamesOnly(entries)
    /\ pkg' = p
    /\ trace' = Append(trace, FileAccess("write"))
    /\ file' = open_w(file) \o WriteFor(p, entries)
    /\ Continue("written", {})
    /\ UNCHANGED <<cmd, secrets, variables, secrets0, file0, secrets_to_set,
                   idx, secret_name, entries, ret, confirmAnswer>>

\* load_env_file on the file write_env_file has just left
load_written ==
    /\ pc = "written"
    /\ cmd = "write_env_file"
    /\ trace' = trace \o <<FileAccess("exists"), FileAccess("read")>>
    /\ secrets_to_set' = load_env_file(file)
    /\ Finish(0, {})
    /\ UNCHANGED <<pkg, cmd, secrets, variables, secrets0, file, file0, idx,
                   secret_name, entries, ret, confirmAnswer>>

InitCodec ==
    /\ pkg = "ghss"
    /\ pc = "idle"
    /\ trace = <<>>
    /\ secrets = EmptyMap
    /\ variables = EmptyMap
    /\ secrets0 = secrets
    /\ \/ /\ cmd = "load_env_file"
          /\ file \in CodecFiles \cup {NoFile}
          /\ entries = <<>>
       \/ /\ cmd = "write_env_file"
          /\ file \in {NoFile, <<"B", "=", "o", NLc>>}
          /\ entries \in SeqsUpTo(CodecEntries, MaxEntries)
    /\ file0 = file
    /\ secrets_to_set = <<>>
    /\ idx = 0
    /\ secret_name = None
    /\ ret = NoRet
    /\ confirmAnswer = TRUE
    /\ exitCode = NoExit
    /\ out = {}

NextCodec ==
    \/ load_env_file_call
    \/ \E p \in {"ghss", "ghs"} : write_env_file_call(p)
    \/ load_written

SpecCodec == InitCodec /\ [][NextCodec]_vars

-----------------------------------------------------------------------------
(* What the properties below read off a run *)

IsRemoteWrite(e) == e.kind = "gh" /\ e.op \in {"secret_set", "PATCH", "POST"}
IsRemoteDelete(e) == e.kind = "gh" /\ e.op \in {"secret_delete", "DELETE"}
IsFileAccess(e) == e.kind = "file"

\* the remote write calls issued so far, in order
RemoteWrites == SelectSeq(trace, IsRemoteWrite)

\* A line of a plain file read by itself: KEY=VALUE, KEY=, =VALUE, KEY, a
\* comment or nothing, KEY and VALUE made of letters and digits
PlainChars == {"A", "B", "C", "x", "y", "o", "c", "1", "_"}
IsPlain(s) == \A i \in DOMAIN s : s[i] \in PlainChars
EqAt(l) == SkipNotSet(l, 1, {"="})
LineKey(l) == SubSeq(l, 1, EqAt(l) - 1)
LineValue(l) == IF EqAt(l) > Len(l) THEN None ELSE SubSeq(l, EqAt(l) + 1, Len(l))
IsComment(l) == Peek(l, 1) = "#"
IsPlainLine(l) ==
    \/ l = <<>>
    \/ IsComment(l) /\ IsPlain(Tail(l))
    \/ IsPlain(LineKey(l)) /\ (LineValue(l) = None \/ IsPlain(LineValue(l)))
\* the line names a key: it is no comment and something stands before its '='
NamesKey(l) == ~IsComment(l) /\ LineKey(l) # <<>>
LinesOf(f) == SplitLines(f)
IsPlainFile(f) == f # NoFile /\ \A n \in DOMAIN LinesOf(f) : IsPlainLine(LinesOf(f)[n])
KeysOf(f) == {LineKey(LinesOf(f)[n]) : n \in {m \in DOMAIN LinesOf(f) : NamesKey(LinesOf(f)[m])}}
FirstLineOf(f, k) == Min({n \in DOMAIN LinesOf(f) : NamesKey(LinesOf(f)[n]) /\ LineKey(LinesOf(f)[n]) = k})
LastLineOf(f, k) == Max({n \in DOMAIN LinesOf(f) : NamesKey(LinesOf(f)[n]) /\ LineKey(LinesOf(f)[n]) = k})
\* the value a key ends up with: that of the last line that names it
FinalValue(f, k) == LineValue(LinesOf(f)[LastLineOf(f, k)])
\* the keys of a plain file that end up with a non-empty value
ValidKeys(f) == {k \in KeysOf(f) : Truthy(FinalValue(f, k))}

SetDone(p) == cmd = "set" /\ pkg = p /\ pc = "done"

-----------------------------------------------------------------------------
(* C1 *)

-----------------------------------------------------------------------------
(* C2 *)

\* C2: in set() a confirmation prompt precedes every remote write, and when
\* the user declines the command ends with exit code 0, no remote write
\* issued and "Operation cancelled" printed
C2_ConfirmBeforeWrite ==
    (cmd = "set" /\ pkg = "ghss") =>
        /\ \A i \in DOMAIN trace :
              IsRemoteWrite(trace[i]) => \E j \in 1..(i - 1) : trace[j].kind = "prompt"
        /\ (pc = "done" /\ ~confirmAnswer /\ secrets_to_set # <<>>) =>
              /\ exitCode = 0
              /\ RemoteWrites = <<>>
              /\ <<"Operation cancelled">> \in out

-----------------------------------------------------------------------------
(* C3 *)

\* C3: set_variable issues the PATCH first; it issues the POST if and only
\* if the PATCH returned a non-zero exit status; one call at least, two at
\* most, never a POST before the PATCH
C3_UpdateThenCreate ==
    cmd = "set_variable" =>
        /\ Len(trace) <= 2
        /\ \A i \in DOMAIN trace : trace[i].op \in {"PATCH", "POST"}
        /\ Len(trace) >= 1 => trace[1].op = "PATCH"
        /\ Len(trace) = 2 =>
              /\ trace[2].op = "POST"
              /\ trace[1].rc # 0
              /\ trace[2].name = trace[1].name
              /\ trace[2].value = trace[1].value
        /\ pc = "post" => Len(trace) = 1 /\ trace[1].rc # 0
        /\ pc = "done" => /\ Len(trace) >= 1
                          /\ trace[1].rc # 0 <=> Len(trace) = 2

\* the update failed and the create that followed succeeded
C3_Witness ==
    /\ cmd = "set_variable" /\ pc = "done"
    /\ Len(trace) = 2
    /\ trace[1].rc # 0 /\ trace[2].rc = 0
    /\ exitCode = 0

-----------------------------------------------------------------------------
(* C4 *)

\* the value the remote store must hold under a name after the successful
\* writes among W: that of the last of them for that name (names without case)
LastWritten(W, n) ==
    W[Max({i \in DOMAIN W : W[i].rc = 0 /\ Upper(W[i].name) = n})].value

\* C4: when the remote write for entry ek fails, set() ends at once with
\* exit code 1: the write is the last call, the writes were e1..ek in order,
\* e1..e(k-1) are in the remote store, nothing else changed there and no
\* delete was ever issued
C4_NoRollback ==
    cmd = "set" =>
        LET W == RemoteWrites
            written == {Upper(W[i].name) : i \in {j \in DOMAIN W : W[j].rc = 0}}
        IN /\ \A i \in DOMAIN trace : ~IsRemoteDelete(trace[i])
           /\ Len(W) <= Len(secrets_to_set)
           /\ \A i \in DOMAIN W :
                 /\ W[i].name = secrets_to_set[i].key
                 /\ W[i].value = secrets_to_set[i].value
           /\ \A i \in DOMAIN trace :
                 (IsRemoteWrite(trace[i]) /\ trace[i].rc # 0) =>
                    /\ i = Len(trace)
                    /\ pc = "done"
                    /\ exitCode = 1
           /\ DOMAIN secrets = DOMAIN secrets0 \cup written
           /\ \A n \in DOMAIN secrets :
                 secrets[n] = IF n \in written THEN LastWritten(W, n) ELSE secrets0[n]

\* three entries, the second write failed: the first is in the store, the
\* third was never tried
C4_Witness ==
    /\ cmd = "set" /\ pc = "done" /\ exitCode = 1
    /\ Len(secrets_to_set) = 3
    /\ Len(RemoteWrites) = 2
    /\ RemoteWrites[2].rc # 0
    /\ Upper(secrets_to_set[1].key) \in DOMAIN secrets
    /\ secrets[Upper(secrets_to_set[1].key)] = secrets_to_set[1].value

-----------------------------------------------------------------------------
(* C5 *)

\* C5: every command checks the authentication first, then resolves the
\* repository, and only then calls the store or touches the file; when one
\* of the two fails the command ends with exit code 1 and nothing follows
C5_AuthThenRepoFirst ==
    cmd \in Commands =>
        /\ Len(trace) >= 1 => trace[1].op = "auth_status"
        /\ Len(trace) >= 2 => trace[2].op = "repo_view" /\ trace[1].rc = 0
        /\ Len(trace) >= 3 => trace[2].rc = 0
        /\ \A i \in DOMAIN trace :
              i >= 3 => trace[i].op \notin {"auth_status", "repo_view"}
        /\ Len(trace) <= 2 => file = file0 /\ secrets = secrets0
        /\ \A i \in DOMAIN trace :
              (i <= 2 /\ trace[i].rc # 0) =>
                 /\ i = Len(trace)
                 /\ pc = "done"
                 /\ exitCode = 1
        /\ (pc = "done" /\ exitCode = 0) => Len(trace) >= 3

\* get() ended with exit code 1 because the repository was not resolved
C5_Witness ==
    /\ cmd = "get" /\ pc = "done" /\ exitCode = 1
    /\ Len(trace) = 2
    /\ trace[2].op = "repo_view" /\ trace[2].rc # 0
    /\ file = file0

-----------------------------------------------------------------------------
(* C6 *)

\* C6: run_gh_command with check set and a non-zero exit status fails with
\* exit code 1, reports the error stream and returns nothing; in every other
\* case it returns the result of the subprocess unchanged and raises nothing
C6_RunGhCommand ==
    ret.called =>
        IF ret.check /\ ret.proc.returncode # 0
        THEN /\ ret.raised
             /\ exitCode = 1
             /\ <<"Error running gh command: ", ret.proc.stderr>> \in out
             /\ ret.result = NoResult
        ELSE /\ ~ret.raised
             /\ exitCode = 0
             /\ out = {}
             /\ ret.result.returncode = ret.proc.returncode
             /\ ret.result.stdout = ret.proc.stdout
             /\ ret.result.stderr = ret.proc.stderr

\* check was unset and the subprocess failed: the failure is handed back
C6_Witness ==
    /\ ret.called /\ ~ret.check
    /\ ret.proc.returncode # 0
    /\ ret.result.returncode # 0
    /\ ret.result.stderr = "HTTP 403"
    /\ ~ret.raised

-----------------------------------------------------------------------------
(* C7 *)

LoadDone == cmd = "load_env_file" /\ pc = "done" /\ file0 # NoFile

HasEntry(m, k, v) == \E i \in DOMAIN m : m[i].key = k /\ m[i].value = v

\* a line KEY=value with both halves non-empty
IsFullLine(l) == NamesKey(l) /\ Truthy(LineValue(l))

\* C7 as stated, read on plain files: the mapping load_env_file returns has
\* only non-empty keys and values, and every line KEY=value of the file with
\* both halves non-empty is present in it
C7_EveryFullLinePresent ==
    (LoadDone /\ IsPlainFile(file0)) =>
        /\ \A i \in DOMAIN secrets_to_set :
              Truthy(secrets_to_set[i].key) /\ Truthy(secrets_to_set[i].value)
        /\ \A n \in DOMAIN LinesOf(file0) :
              IsFullLine(LinesOf(file0)[n]) =>
                 HasEntry(secrets_to_set, LineKey(LinesOf(file0)[n]),
                          LineValue(LinesOf(file0)[n]))

\* C7, amended: for every file the mapping has only non-empty keys and
\* values, each key once; for a plain file it holds exactly the keys whose
\* last line is KEY=value with a non-empty value, with that value: KEY= and
\* =value give no entry, and every other line KEY=value is present unless a
\* later line names its key again
C7_LoadKeepsLastNonEmpty ==
    LoadDone =>
        LET m == secrets_to_set
            ls == LinesOf(file0)
        IN /\ \A i \in DOMAIN m : Truthy(m[i].key) /\ Truthy(m[i].value)
           /\ \A i, j \in DOMAIN m : m[i].key = m[j].key => i = j
           /\ IsPlainFile(file0) =>
                 /\ {m[i].key : i \in DOMAIN m} = ValidKeys(file0)
                 /\ \A i \in DOMAIN m : m[i].value = FinalValue(file0, m[i].key)
                 /\ \A n \in DOMAIN ls :
                       (IsFullLine(ls[n]) /\ LastLineOf(file0, LineKey(ls[n])) = n) =>
                          HasEntry(m, LineKey(ls[n]), LineValue(ls[n]))

\* the file of the unit tests: a kept line, a line with an empty value, a
\* line with an empty key
C7_Witness ==
    /\ LoadDone
    /\ LinesOf(file0) = << <<"B", "=", "y">>, <<"A", "=">>, <<"=", "x">> >>
    /\ secrets_to_set = << [key |-> <<"B">>, value |-> <<"y">>] >>

-----------------------------------------------------------------------------
(* C8 *)

\* C8: set() of ghs drops the entries with an empty value: none is counted
\* among the entries to set and none is written to the remote store
C8_GhsDropsEmptyValues ==
    (cmd = "set" /\ pkg = "ghs") =>
        /\ \A i \in DOMAIN secrets_to_set : Truthy(secrets_to_set[i].value)
        /\ \A i \in DOMAIN RemoteWrites : Truthy(RemoteWrites[i].value)

-----------------------------------------------------------------------------
(* C9 *)

\* the entries are those of a mapping: every one has a value, no name twice
IsMapping(vs) ==
    /\ \A i \in DOMAIN vs : DOMAIN vs[i] = {"name", "value"}
    /\ \A i, j \in DOMAIN vs : vs[i].name = vs[j].name => i = j

RoundTripDone == cmd = "write_env_file" /\ pkg = "ghss" /\ pc = "done" /\ IsMapping(entries)

Pairs(m) == {<<m[i].key, m[i].value>> : i \in DOMAIN m}
NonEmptyPairs(vs) ==
    {<<vs[i].name, vs[i].value>> :
        i \in {j \in DOMAIN vs : vs[j].name # <<>> /\ vs[j].value # <<>>}}

\* C9 as stated: for every mapping, writing it and loading the file again
\* gives the mapping without its entries with an empty key or an empty value
C9_RoundTripAnyStrings ==
    RoundTripDone => Pairs(secrets_to_set) = NonEmptyPairs(entries)

\* C9, amended: the same for every mapping whose keys and values are made of
\* letters, digits and underscores only
C9_RoundTripPlainStrings ==
    (RoundTripDone /\ \A i \in DOMAIN entries :
                         IsPlain(entries[i].name) /\ IsPlain(entries[i].value)) =>
        Pairs(secrets_to_set) = NonEmptyPairs(entries)

\* two entries written and loaded again, both kept
C9_Witness ==
    /\ RoundTripDone
    /\ entries = << [name |-> <<"A">>, value |-> <<"x">>],
                    [name |-> <<"B">>, value |-> <<"x">>] >>
    /\ Len(secrets_to_set) = 2

-----------------------------------------------------------------------------
(* C10 *)

NameOf(e) == IF "name" \in DOMAIN e THEN e.name ELSE <<>>
ValueOf(e) == IF "value" \in DOMAIN e THEN e.value ELSE <<>>

\* the number of characters the claim allots to the first n entries
RECURSIVE CharsBefore(_, _)
CharsBefore(vs, n) ==
    IF n = 0 THEN 0
    ELSE CharsBefore(vs, n - 1) + Len(NameOf(vs[n])) + Len(ValueOf(vs[n])) + 2

-----------------------------------------------------------------------------
(* C11 *)

\* a step of write_env_file, the first call or the second
IsWriteStep ==
    /\ cmd = "write_env_file"
    /\ pc' = "written"
    /\ Len(trace') = Len(trace) + 1

\* the lines the entries alone call for
LinesFor(vs) ==
    Flatten([i \in DOMAIN vs |-> NameOf(vs[i]) \o <<"=">> \o ValueOf(vs[i]) \o <<NLc>>])

\* C11: after write_env_file the content of the file is a function of the
\* entries alone: what the file held before is gone, a second write of the
\* same entries leaves the content of the first, and no entries leave an
\* empty file
C11_WriteOverwrites ==
    [][IsWriteStep =>
          /\ file' # NoFile
          /\ file' = LinesFor(entries)
          /\ entries' = entries
          /\ entries = <<>> => file' = <<>>
          /\ pc = "written" => file' = file]_vars

\* the same entry written twice over a file that held another line
C11_Witness ==
    /\ cmd = "write_env_file" /\ pc = "written"
    /\ Len(trace) = 2
    /\ file0 = <<"B", "=", "o", NLc>>
    /\ entries = << [name |-> <<"A">>, value |-> <<"x">>] >>
    /\ file = <<"A", "=", "x", NLc>>

-----------------------------------------------------------------------------
(* C12 *)

\* C12: load_env_file on a path that does not exist ends with exit code 1
\* and returns nothing; set() on such a path ends with exit code 1 whatever
\* step it ends at, has issued no remote write, and has left the remote
\* store and the path as they were
C12_MissingFileExitsOne ==
    /\ (cmd = "load_env_file" /\ pc = "done" /\ file0 = NoFile) =>
          /\ exitCode = 1
          /\ secrets_to_set = <<>>
          /\ trace = <<FileAccess("exists")>>
          /\ file = NoFile
    /\ (cmd = "set" /\ file0 = NoFile) =>
          /\ RemoteWrites = <<>>
          /\ secrets = secrets0
          /\ file = NoFile
          /\ pc \notin {"push"}
          /\ pc = "done" => exitCode = 1
          /\ Len(trace) >= 3 =>
                /\ trace = <<trace[1], trace[2], FileAccess("exists")>>
                /\ pc = "done"
                /\ <<"Error: File not found.">> \in out

\* set() of ghss got as far as the file, which does not exist
C12_Witness ==
    /\ cmd = "set" /\ pkg = "ghss" /\ pc = "done"
    /\ file0 = NoFile
    /\ Len(trace) = 3
    /\ exitCode = 1

-----------------------------------------------------------------------------
(* C13 *)

\* the file was read: by load_env_file called directly, or by set()
Loaded ==
    \/ cmd = "load_env_file" /\ pc = "done" /\ file0 # NoFile
    \/ cmd = "set" /\ Len(trace) >= 4

\* a line that lacks '=' and is neither blank nor a comment
LacksEq(l) == l # <<>> /\ ~IsComment(l) /\ EqAt(l) > Len(l)

\* C13: a line that lacks '=' does not make the load fail and contributes no
\* entry, and every line KEY=value with a non-empty key and value whose key
\* stands on no other line KEY=... is in the mapping, the lines before the
\* line that lacks '=' as well as those after it
C13_LineWithoutEqualsSkipped ==
    (Loaded /\ \E n \in DOMAIN LinesOf(file0) : LacksEq(LinesOf(file0)[n])) =>
        LET ls == LinesOf(file0)
            m == secrets_to_set
            WithEq == {n \in DOMAIN ls : ~IsComment(ls[n]) /\ EqAt(ls[n]) <= Len(ls[n])}
        IN /\ cmd = "load_env_file" => exitCode = 0
           /\ cmd = "set" => <<"Error: File not found.">> \notin out
           /\ \A n \in WithEq :
                 (/\ IsFullLine(ls[n])
                  /\ \A n2 \in WithEq : LineKey(ls[n2]) = LineKey(ls[n]) => n2 = n)
                 => HasEntry(m, LineKey(ls[n]), LineValue(ls[n]))
           /\ \A n \in DOMAIN ls :
                 (/\ LacksEq(ls[n])
                  /\ \A n2 \in WithEq : LineKey(ls[n2]) # ls[n])
                 => \A i \in DOMAIN m : m[i].key # ls[n]

-----------------------------------------------------------------------------
(* C14 *)

\* the calls of testconf() that follow the authentication check and the
\* repository lookup
TestconfSteps == SubSeq(trace, 3, Len(trace))

\* C14: testconf of ghss issues the creation of an entry, then the wait,
\* then the listing, then the deletion of that entry, each only after the
\* one before has succeeded; when it has ended with exit code 0 all four
\* were issued, the entry is not in the remote store, and the store is what
\* it was before the command
C14_TestconfRoundTrip ==
    (cmd = "testconf" /\ pkg = "ghss") =>
        LET T == TestconfSteps
        IN /\ Len(T) <= 4
           /\ Len(T) >= 1 => T[1].op = "secret_set" /\ T[1].name = secret_name
           /\ Len(T) >= 2 =>
                 /\ T[1].rc = 0
                 /\ T[2] = Sleep
                 /\ Len(T) >= 3
           /\ Len(T) >= 3 => T[3].op = "secret_list"
           /\ Len(T) >= 4 =>
                 /\ T[3].rc = 0
                 /\ T[4].op = "secret_delete"
                 /\ Upper(T[4].name) = Upper(T[1].name)
           /\ (pc = "done" /\ exitCode = 0) =>
                 /\ Len(T) = 4
                 /\ T[4].rc = 0
                 /\ Upper(secret_name) \notin DOMAIN secrets
                 /\ DOMAIN secrets = DOMAIN secrets0 \ {Upper(secret_name)}
                 /\ \A n \in DOMAIN secrets : secrets[n] = secrets0[n]

\* testconf of ghss ended with exit code 0 on a store that held another entry
C14_Witness ==
    /\ cmd = "testconf" /\ pkg = "ghss" /\ pc = "done" /\ exitCode = 0
    /\ Len(TestconfSteps) = 4
    /\ DOMAIN secrets0 = {<<"B">>}
    /\ secrets = secrets0

-----------------------------------------------------------------------------
(* C15 *)

\* testconf() has obtained its read-back listing
ListingRead ==
    /\ cmd = "testconf"
    /\ \E i \in DOMAIN trace : trace[i].op = "secret_list" /\ trace[i].rc = 0

SuccessMessage == <<"All tests passed! Configuration is working correctly.">>

\* C15: when the listing testconf() reads back does not hold the entry it
\* has just created, testconf() ends at once with exit code 1: the success
\* message is not printed, the verification is not reported and no delete
\* is issued
C15_NotListedExitsOne ==
    (ListingRead /\ \A i \in DOMAIN entries : entries[i].name # Upper(secret_name)) =>
        /\ pc = "done"
        /\ exitCode = 1
        /\ SuccessMessage \notin out
        /\ <<"Test secret verified">> \notin out
        /\ <<"Test secret not found in repository">> \in out
        /\ trace[Len(trace)].op = "secret_list"

\* the entry was created but the listing of ghss did not show it yet, and
\* showed another entry
C15_Witness ==
    /\ ListingRead /\ pkg = "ghss" /\ pc = "done" /\ exitCode = 1
    /\ Upper(secret_name) \in DOMAIN secrets
    /\ entries = << [name |-> <<"B">>] >>

-----------------------------------------------------------------------------
(* C16 *)

\* C16: the remote store keeps names in upper case; when every call of
\* testconf() has succeeded and the listing read back shows the entry under
\* its upper-cased name, testconf() reports the verification, deletes the
\* entry under its upper-cased name and ends with exit code 0
C16_UpperCaseLookup ==
    (/\ ListingRead
     /\ \A i \in DOMAIN trace : trace[i].rc = 0
     /\ \E i \in DOMAIN entries : entries[i].name = Upper(secret_name)) =>
        /\ <<"Test secret verified">> \in out
        /\ pc \in {"delete", "done"}
        /\ pc = "done" =>
              /\ exitCode = 0
              /\ SuccessMessage \in out
              /\ trace[Len(trace)].op = "secret_delete"
              /\ trace[Len(trace)].name = Upper(secret_name)
              /\ Upper(secret_name) \notin DOMAIN secrets

-----------------------------------------------------------------------------
(* C17 *)

\* get() has read the listing of a remote store that holds nothing
ListedNothing ==
    /\ cmd = "get"
    /\ secrets = EmptyMap
    /\ \E i \in DOMAIN trace : trace[i].op = "secret_list" /\ trace[i].rc = 0

\* C17: when the remote listing is empty get() ends with exit code 0 and
\* the message that nothing was found; the local file is not opened: it is
\* not created when it did not exist and keeps its content when it did
C17_GetNothingLeavesFile ==
    ListedNothing =>
        /\ pc = "done"
        /\ exitCode = 0
        /\ <<"No secrets found in repository.">> \in out
        /\ <<"Secret names written to file">> \notin out
        /\ file = file0
        /\ \A i \in DOMAIN trace : ~IsFileAccess(trace[i])
        /\ trace[Len(trace)].op = "secret_list"

\* get() of ghss on an empty store, the target file did not exist
C17_Witness ==
    /\ ListedNothing /\ pkg = "ghss" /\ pc = "done"
    /\ file0 = NoFile
    /\ file = NoFile
    /\ entries = <<>>

-----------------------------------------------------------------------------
(* C18 *)

\* the messages that hold the words "No variables found"
NoVariablesFound ==
    {<<"No variables found">>, <<"No variables found in .env file.">>}

\* C18: when the file set() of ghss has read loads to an empty mapping,
\* set() ends with exit code 0, has printed "No variables found", has shown
\* no confirmation prompt and has issued no remote write
C18_SetNothingToSet ==
    (cmd = "set" /\ pkg = "ghss" /\ Len(trace) >= 4 /\ secrets_to_set = <<>>) =>
        /\ pc = "done"
        /\ exitCode = 0
        /\ out \cap NoVariablesFound # {}
        /\ \A i \in DOMAIN trace : trace[i].kind # "prompt"
        /\ RemoteWrites = <<>>
        /\ secrets = secrets0

\* what the code does in that case: the same, with the message about secrets
C18_SetNothingToSetSecrets ==
    (cmd = "set" /\ pkg = "ghss" /\ Len(trace) >= 4 /\ secrets_to_set = <<>>) =>
        /\ pc = "done"
        /\ exitCode = 0
        /\ <<"No secrets found in .env file.">> \in out
        /\ \A i \in DOMAIN trace : trace[i].kind # "prompt"
        /\ RemoteWrites = <<>>
        /\ secrets = secrets0

-----------------------------------------------------------------------------
(* C19 *)

ErrorOf(call) == <<"Error running gh command: ", call.stderr>>

\* C19: in set_variable a failed update is followed by the create whatever
\* the update failed with, and is reported nowhere; set_variable ends with
\* exit code 1 exactly when the update and the create have both failed, and
\* what it then reports is the error stream of the create alone
C19_UpdateFailureMasked ==
    cmd = "set_variable" =>
        /\ (Len(trace) >= 1 /\ trace[1].rc # 0) => (pc = "post" \/ Len(trace) = 2)
        /\ pc = "post" => out = {} /\ exitCode = NoExit
        /\ pc = "done" =>
              /\ exitCode \in {0, 1}
              /\ exitCode = 1 <=>
                    (Len(trace) = 2 /\ trace[1].rc # 0 /\ trace[2].rc # 0)
              /\ exitCode = 1 => out = {ErrorOf(trace[2])}
              /\ exitCode = 0 => out = {}

\* the update was refused for lack of permission, the create then failed
\* with another error: that one alone is reported
C19_Witness ==
    /\ cmd = "set_variable" /\ pc = "done" /\ exitCode = 1
    /\ trace[1].stderr = "HTTP 403"
    /\ trace[2].stderr = "HTTP 404"
    /\ out = {<<"Error running gh command: ", "HTTP 404">>}

-----------------------------------------------------------------------------
(* C20 *)

IsGhCall(e) == e.kind = "gh"

\* the create that set_variable issues after its update has failed
IsFallbackCreate(i) ==
    /\ cmd = "set_variable"
    /\ i = 2
    /\ trace[1].op = "PATCH" /\ trace[1].rc # 0
    /\ trace[2].op = "POST"
    /\ trace[2].name = trace[1].name

\* C20: in one run no remote call is issued twice: a call that failed ends
\* the run, the one exception being the failed update of set_variable,
\* which is followed by one create and nothing more; no operation is issued
\* twice for the same entry, and one wait at most is made
C20_NoRetry ==
    /\ \A i \in DOMAIN trace :
          (IsGhCall(trace[i]) /\ trace[i].rc # 0) =>
             \/ i = Len(trace)
             \/ i + 1 = Len(trace) /\ IsFallbackCreate(i + 1)
    /\ \A i, j \in DOMAIN trace :
          (/\ i < j
           /\ IsGhCall(trace[i]) /\ IsGhCall(trace[j])
           /\ trace[i].name = trace[j].name)
          => /\ trace[i].op # trace[j].op
             /\ (IsRemoteWrite(trace[i]) /\ IsRemoteWrite(trace[j])) => IsFallbackCreate(j)
    /\ Cardinality({i \in DOMAIN trace : trace[i] = Sleep}) <= 1

\* set() of ghss stopped at a second write that failed, issued once
C20_Witness ==
    /\ cmd = "set" /\ pkg = "ghss" /\ pc = "done" /\ exitCode = 1
    /\ Len(RemoteWrites) = 2
    /\ RemoteWrites[1].rc = 0
    /\ RemoteWrites[2].rc # 0
    /\ RemoteWrites[2].stderr = "HTTP 403"

-----------------------------------------------------------------------------
(* C21 *)

\* testconf() has created its entry
Created ==
    /\ cmd = "testconf"
    /\ \E i \in DOMAIN trace : trace[i].op = "secret_set" /\ trace[i].rc = 0

DeleteIssued == \E i \in DOMAIN trace : trace[i].op = "secret_delete"

\* C21: the delete of testconf() is issued only after the listing call has
\* succeeded and the verification has found the entry; when the listing
\* call fails or the entry is not found, testconf() ends with exit code 1,
\* no delete issued, and the entry it created is still in the remote store
C21_FailedTestconfLeavesEntry ==
    Created =>
        /\ DeleteIssued =>
              /\ ListingRead
              /\ <<"Test secret verified">> \in out
              /\ InSecretNames(LookupName(pkg, secret_name), entries)
        /\ (pc = "done" /\ ~(ListingRead /\ <<"Test secret verified">> \in out)) =>
              /\ exitCode = 1
              /\ ~DeleteIssued
              /\ trace[Len(trace)].op = "secret_list"
              /\ Upper(secret_name) \in DOMAIN secrets
              /\ secrets[Upper(secret_name)] = <<"v">>

\* the listing call of ghss failed: the entry, which the store did not hold
\* before, is left behind
C21_Witness ==
    /\ Created /\ pkg = "ghss" /\ pc = "done" /\ exitCode = 1
    /\ trace[Len(trace)].op = "secret_list"
    /\ trace[Len(trace)].rc # 0
    /\ Upper(secret_name) \notin DOMAIN secrets0
    /\ Upper(secret_name) \in DOMAIN secrets

-----------------------------------------------------------------------------
(* C22 *)

ReadSide == {"get", "get_secret", "get_variable", "list_vars"}

IsMutating(e) == IsRemoteWrite(e) \/ IsRemoteDelete(e)

\* C22: no step of get, get_secret, get_variable or list_vars issues a
\* remote set, create, update or delete or changes the secrets or the
\* variables of the repository, whether the command succeeds or fails; no
\* step of set() writes to the local file
C22_ReadSideDoesNotMutate ==
    [][/\ cmd' \in ReadSide =>
             /\ secrets' = secrets
             /\ variables' = variables
             /\ \A i \in DOMAIN trace' : ~IsMutating(trace'[i])
       /\ cmd' = "set" =>
             /\ file' = file
             /\ \A i \in DOMAIN trace' :
                   IsFileAccess(trace'[i]) => trace'[i].op \in {"exists", "read"}]_vars

\* get() has written the names of a store that holds a secret, and the
\* store is as it was
C22_Witness ==
    /\ cmd = "get" /\ pc = "done" /\ exitCode = 0
    /\ file # file0
    /\ secrets # EmptyMap
    /\ secrets = secrets0
    /\ Len(trace) = 4

-----------------------------------------------------------------------------
(* C23 *)

IsFileWrite(e) == e.kind = "file" /\ e.op = "write"

\* C23: get() opens the local file for writing only as its last step, after
\* the authentication check, the repository lookup and the listing call
\* have succeeded and the listing has returned an entry at least; when one
\* of the three calls fails, get() ends with exit code 1 and the file is
\* what it was, absent if it was absent
C23_GetWritesAfterListing ==
    cmd = "get" =>
        /\ \A i \in DOMAIN trace :
              IsFileAccess(trace[i]) =>
                 /\ IsFileWrite(trace[i])
                 /\ i = 4 /\ Len(trace) = 4
                 /\ \A j \in 1..3 : IsGhCall(trace[j]) /\ trace[j].rc = 0
                 /\ trace[3].op = "secret_list"
                 /\ entries # <<>>
        /\ file # file0 => \E i \in DOMAIN trace : IsFileWrite(trace[i])
        /\ (\E i \in DOMAIN trace : IsGhCall(trace[i]) /\ trace[i].rc # 0) =>
              /\ pc = "done"
              /\ exitCode = 1
              /\ file = file0
              /\ \A i \in DOMAIN trace : ~IsFileAccess(trace[i])

\* the listing call of get() failed: the file that existed keeps its lines
C23_Witness ==
    /\ cmd = "get" /\ pc = "done" /\ exitCode = 1
    /\ Len(trace) = 3
    /\ trace[3].op = "secret_list" /\ trace[3].rc # 0
    /\ file0 = <<"A", "=", "x", NLc>>
    /\ file = file0

-----------------------------------------------------------------------------
(* C24 *)

\* the lines of a file that hold a key: the lines KEY=... for set() of ghs,
\* which skips a line without '='; for set() of ghss those and the lines
\* KEY, which python-dotenv reads as the key without a value
HoldsKey(p, l) == NamesKey(l) /\ (p = "ghs" => EqAt(l) <= Len(l))
KeyLines(p, f, k) ==
    {n \in DOMAIN LinesOf(f) : HoldsKey(p, LinesOf(f)[n]) /\ LineKey(LinesOf(f)[n]) = k}
KeysHeld(p, f) ==
    {LineKey(LinesOf(f)[n]) : n \in {m \in DOMAIN LinesOf(f) : HoldsKey(p, LinesOf(f)[m])}}
LastValue(p, f, k) == LineValue(LinesOf(f)[Max(KeyLines(p, f, k))])
HasRepeatedKey(p, f) == \E k \in KeysHeld(p, f) : Cardinality(KeyLines(p, f, k)) >= 2

\* set() has ended, every call having succeeded, on a file with a key that
\* stands on several lines
SetDoneOnRepeatedKey ==
    /\ cmd = "set" /\ pc = "done" /\ exitCode = 0
    /\ file0 # NoFile
    /\ HasRepeatedKey(pkg, file0)

\* C24 as stated, the lines of a key being its lines KEY=...: one remote
\* write for each key, with the value of the key's last line, in the order
\* of the first lines of the keys, as many writes as there are distinct keys
C24_OneWritePerKey ==
    (SetDoneOnRepeatedKey /\ HasRepeatedKey("ghs", file0)) =>
        LET W == RemoteWrites
            keys == KeysHeld("ghs", file0)
        IN /\ Len(W) = Cardinality(keys)
           /\ \A k \in keys :
                 Cardinality({i \in DOMAIN W : W[i].name = k}) = 1
           /\ \A i \in DOMAIN W :
                 W[i].name \in keys => W[i].value = LastValue("ghs", file0, W[i].name)
           /\ \A i, j \in DOMAIN W :
                 (i < j /\ W[i].name \in keys /\ W[j].name \in keys) =>
                    Min(KeyLines("ghs", file0, W[i].name))
                       < Min(KeyLines("ghs", file0, W[j].name))

\* C24, amended: one remote write at most for each key, with the value of
\* the key's last line, in the order of the first lines of the keys; in
\* ghss a key whose last line gives it no value or an empty one gets no
\* write; the writes are as many as the distinct keys in ghs, as the
\* distinct keys whose last line gives a non-empty value in ghss
C24_OneWritePerKeyLastValue ==
    SetDoneOnRepeatedKey =>
        LET W == RemoteWrites
            keys == KeysHeld(pkg, file0)
            written == IF pkg = "ghss"
                       THEN {k \in keys : Truthy(LastValue(pkg, file0, k))}
                       ELSE keys
        IN /\ Len(W) = Cardinality(written)
           /\ {W[i].name : i \in DOMAIN W} = written
           /\ \A k \in keys : Cardinality({i \in DOMAIN W : W[i].name = k}) <= 1
           /\ \A i \in DOMAIN W : W[i].value = LastValue(pkg, file0, W[i].name)
           /\ \A i, j \in DOMAIN W :
                 i < j => Min(KeyLines(pkg, file0, W[i].name))
                             < Min(KeyLines(pkg, file0, W[j].name))

\* set() of ghss on the lines A=x, B=y, A=y: A is written first, with y
C24_Witness ==
    /\ SetDoneOnRepeatedKey /\ pkg = "ghss"
    /\ LinesOf(file0) = << <<"A", "=", "x">>, <<"B", "=", "y">>, <<"A", "=", "y">> >>
    /\ Len(RemoteWrites) = 2
    /\ RemoteWrites[1].name = <<"A">> /\ RemoteWrites[1].value = <<"y">>
    /\ RemoteWrites[2].name = <<"B">>

====
